---- MODULE Spec2Model ----
(***************************************************************************)
(* ThreeNNVectorPoolByTwoStep.forward (mmcv/ops): the capacity-retry loop  *)
(* around the candidate gatherer, followed by one run of the three-nearest *)
(* neighbour refiner.  The two extension kernels are not part of the       *)
(* Python source; they are modelled from the specification (sections 4.1,  *)
(* 4.2 and 5).  Coordinates are small naturals; flat indices are 0-based   *)
(* as in the source, sequences are 1-based.                                *)
(***************************************************************************)
EXTENDS Integers, Sequences, FiniteSets, TLC

\* ---------------------------------------------------------------- bounds
MaxPts == 4          \* source points of a call
MaxCenters == 2      \* query centers in a call
MaxBatch == 2        \* batch elements
MaxAvg == 2          \* largest initial avg_length_of_neighbor_idxs
MaxGrids == 1        \* num_total_grids
MaxPasses == 3       \* gather passes of one call the model follows

\* ------------------------------------------------------------ input sets
\* point clouds and query centers are prefixes of these patterns, repeated
SrcPattern == <<<<0, 0, 0>>, <<1, 1, 0>>, <<2, 0, 0>>>>
CtrPattern == <<<<3, 1, 0>>, <<0, 0, 0>>, <<1, 0, 0>>>>
\* grid sample g of a center is the center shifted by the g-th offset
GridPattern == <<<<0, 0, 0>>, <<1, 0, 0>>>>
NSamples == {-1, 0, 2}
NeighborTypes == {0, 1}
Distances == {1}
Multipliers == {1, 2}

VARIABLES
    \* arguments of forward
    xyz, xyz_batch_cnt, new_xyz, new_xyz_batch_cnt,
    max_neighbour_distance, nsample, neighbor_type,
    neighbor_distance_multiplier, avg_length_of_neighbor_idxs,
    new_xyz_grid_centers, num_total_grids,
    \* locals of forward
    num_max_sum_points, stack_neighbor_idxs, start_len, cumsum,
    new_xyz_grid_dist2, new_xyz_grid_idxs,
    \* control
    pc,          \* "loop", "scan", "refine", "done", "error"
    scanned,     \* centers whose scanning unit of the current pass has run,
                 \* in the order in which they advanced the counter
    passes,      \* gather passes started in the current call
    oob,         \* writes of the current pass that fell past the buffer
    refined,     \* runs of the refiner in the current call
    refine_in,   \* what the refiner was given: <<buffer, start_len>>
    result,      \* the returned tuple
    initial_avg, \* avg_length_of_neighbor_idxs the current call started with
    call,        \* 1 in the first call on the input, 2 in every later one
    prev         \* outcome of the previous call

args == <<xyz, xyz_batch_cnt, new_xyz, new_xyz_batch_cnt,
          max_neighbour_distance, nsample, neighbor_type,
          neighbor_distance_multiplier>>
grid == <<new_xyz_grid_centers, num_total_grids>>
pass == <<num_max_sum_points, stack_neighbor_idxs, start_len, cumsum,
          scanned, oob>>
outs == <<new_xyz_grid_dist2, new_xyz_grid_idxs, refined, refine_in, result>>
vars == <<args, grid, pass, outs, avg_length_of_neighbor_idxs, pc, passes,
          initial_avg, call, prev>>

\* ---------------------------------------------------------------- helpers
RECURSIVE SumSeq(_)
SumSeq(s) == IF s = <<>> THEN 0 ELSE Head(s) + SumSeq(Tail(s))

Min(a, b) == IF a < b THEN a ELSE b
Max(a, b) == IF a > b THEN a ELSE b
Abs(a) == IF a < 0 THEN -a ELSE a

BatchSplits(total, b) == {s \in [1..b -> 0..total] : SumSeq(s) = total}
EvenSplit(total, b) ==
    [i \in 1..b |-> (total \div b) + (IF i <= total % b THEN 1 ELSE 0)]

Zeros(n) == [i \in 1..n |-> 0]
Range(s) == {s[i] : i \in DOMAIN s}

\* the first n points of a repeated pattern
Prefix(pattern, n) == [i \in 1..n |-> pattern[((i - 1) % Len(pattern)) + 1]]

num_new_xyz == Len(new_xyz)

Dist2(p, q) == (p[1] - q[1]) * (p[1] - q[1]) + (p[2] - q[2]) * (p[2] - q[2])
               + (p[3] - q[3]) * (p[3] - q[3])

\* source point with 0-based flat index i
Point(i) == xyz[i + 1]

\* ------------------------------------------- gatherer (extension kernel)
\* stack_query_local_neighbor_idxs, modelled from the specification 4.1/5.

\* batch element (1-based) of the query center with 0-based index pt_idx
RECURSIVE BatchIdx(_, _, _)
BatchIdx(cnts, pt_idx, b) ==
    IF b >= Len(cnts) \/ pt_idx < SumSeq(SubSeq(cnts, 1, b))
    THEN b ELSE BatchIdx(cnts, pt_idx, b + 1)

\* variant of XyzBatchStart: every scan starts at the first source point
XyzBatchStartZero(b) == 0

\* flat index of the first source point of batch element b
XyzBatchStart(b) == SumSeq(SubSeq(xyz_batch_cnt, 1, b - 1))

\* variant of QueryDistance: the multiplier is added to the distance
QueryDistanceSum == max_neighbour_distance + neighbor_distance_multiplier

\* query distance handed to the gatherer
QueryDistance == max_neighbour_distance * neighbor_distance_multiplier

\* the spatial predicate: ball for neighbor_type 1, cube otherwise
Qualifies(p, q, r, type) ==
    IF type = 1
    THEN Dist2(p, q) <= r * r
    ELSE /\ Abs(p[1] - q[1]) <= r
         /\ Abs(p[2] - q[2]) <= r
         /\ Abs(p[3] - q[3]) <= r

\* variant of ScanPoints: the scan stops one candidate after the cap
RECURSIVE ScanPointsCapExceeded(_, _, _, _, _, _, _)
ScanPointsCapExceeded(q, first, k, n, r, type, acc) ==
    IF k >= n THEN acc
    ELSE IF Qualifies(Point(first + k), q, r, type)
         THEN LET acc2 == Append(acc, first + k)
              IN  IF nsample > 0 /\ Len(acc2) > nsample
                  THEN acc2
                  ELSE ScanPointsCapExceeded(q, first, k + 1, n, r, type,
                                             acc2)
         ELSE ScanPointsCapExceeded(q, first, k + 1, n, r, type, acc)

\* scan of source points k, k+1, .. n-1 of the batch element starting at
\* flat index first; acc holds the flat indices accepted so far
RECURSIVE ScanPoints(_, _, _, _, _, _, _)
ScanPoints(q, first, k, n, r, type, acc) ==
    IF k >= n THEN acc
    ELSE IF Qualifies(Point(first + k), q, r, type)
         THEN LET acc2 == Append(acc, first + k)
              IN  IF nsample > 0 /\ Len(acc2) >= nsample
                  THEN acc2
                  ELSE ScanPoints(q, first, k + 1, n, r, type, acc2)
         ELSE ScanPoints(q, first, k + 1, n, r, type, acc)

\* candidates accepted for center c (1-based), with radius r
Candidates(c, r, type) ==
    LET b == BatchIdx(new_xyz_batch_cnt, c - 1, 1)
    IN  ScanPoints(new_xyz[c], XyzBatchStart(b), 0, xyz_batch_cnt[b],
                   r, type, <<>>)

\* buffer after the unit of a center stored acc at 0-based offset off;
\* positions past the end of the buffer are not stored
StoreSlice(buf, off, acc) ==
    [i \in 1..Len(buf) |->
        IF off < i /\ i <= off + Len(acc) THEN acc[i - off] ELSE buf[i]]

\* number of the stores of a slice that fall past the end of the buffer
PastEnd(buf, off, cnt) == (off + cnt) - Min(off + cnt, Max(off, Len(buf)))

\* variant of ScanUnit: the offset is read after the counter was advanced
ScanUnitAddThenFetch(c, r, type) ==
    LET acc == Candidates(c, r, type)
        off == cumsum + Len(acc)
    IN  /\ cumsum' = cumsum + Len(acc)
        /\ start_len' = [start_len EXCEPT ![c] = <<off, Len(acc)>>]
        /\ stack_neighbor_idxs' = StoreSlice(stack_neighbor_idxs, off, acc)
        /\ oob' = oob + PastEnd(stack_neighbor_idxs, off, Len(acc))

\* variant of ScanUnit: the unit checks the range, it accepts and counts only
\* the candidates the buffer still has room for
ScanUnitClamped(c, r, type) ==
    LET all == Candidates(c, r, type)
        room == Max(0, Len(stack_neighbor_idxs) - cumsum)
        acc == SubSeq(all, 1, Min(Len(all), room))
        off == cumsum
    IN  /\ cumsum' = cumsum + Len(acc)
        /\ start_len' = [start_len EXCEPT ![c] = <<off, Len(acc)>>]
        /\ stack_neighbor_idxs' = StoreSlice(stack_neighbor_idxs, off, acc)
        /\ oob' = oob + PastEnd(stack_neighbor_idxs, off, Len(acc))

\* variant of ScanUnit: the counter is advanced without atomicity, every unit
\* adds its count to the value the counter had when the pass started
ScanUnitStaleCounter(c, r, type) ==
    LET acc == Candidates(c, r, type)
        off == 0
    IN  /\ cumsum' = off + Len(acc)
        /\ start_len' = [start_len EXCEPT ![c] = <<off, Len(acc)>>]
        /\ stack_neighbor_idxs' = StoreSlice(stack_neighbor_idxs, off, acc)
        /\ oob' = oob + PastEnd(stack_neighbor_idxs, off, Len(acc))

\* one scanning unit: the whole scan of center c, one atomic fetch-and-add
\* of the shared counter, the SliceRecord and the stores into the buffer
ScanUnit(c, r, type) ==
    LET acc == Candidates(c, r, type)
        off == cumsum
    IN  /\ cumsum' = cumsum + Len(acc)
        /\ start_len' = [start_len EXCEPT ![c] = <<off, Len(acc)>>]
        /\ stack_neighbor_idxs' = StoreSlice(stack_neighbor_idxs, off, acc)
        /\ oob' = oob + PastEnd(stack_neighbor_idxs, off, Len(acc))

\* -------------------------------------------------------------- forward
\* variants of NewAvgLength: without the round-up, and with the remainder
\* test off by one
NewAvgLengthFloor(cs, m) == cs \div m
NewAvgLengthOffByOne(cs, m) == (cs \div m) + (IF cs % m > 1 THEN 1 ELSE 0)

\* new avg_length_of_neighbor_idxs computed from the counter
NewAvgLength(cs, m) == (cs \div m) + (IF cs % m > 0 THEN 1 ELSE 0)

\* variants of Sufficient: strict, always true, operands swapped
SufficientStrict(cs, capacity) == cs < capacity
SufficientAlways(cs, capacity) == TRUE
SufficientSwapped(cs, capacity) == capacity <= cs

\* loop exit test
Sufficient(cs, capacity) == cs <= capacity

\* variant of Synchronized: the counter is read without waiting
Unsynchronized == TRUE

\* cumsum[0].item(): the read of the counter waits for the launched kernel
Synchronized == Len(scanned) = num_new_xyz

\* variant of Truncate: the whole buffer is handed on
TruncateNone(buf, n) == buf

\* stack_neighbor_idxs[:cumsum[0]]
Truncate(buf, n) == SubSeq(buf, 1, Min(n, Len(buf)))

Init ==
    /\ xyz = Prefix(SrcPattern, MaxPts)
    /\ new_xyz \in {Prefix(CtrPattern, m) : m \in 0..MaxCenters}
    /\ \E b \in 1..MaxBatch :
          /\ xyz_batch_cnt = EvenSplit(Len(xyz), b)
          \* the counts of the centers, or one count for all the centers
          \* whatever the number of batch elements: nothing compares the
          \* shapes of the two count tensors
          /\ new_xyz_batch_cnt \in BatchSplits(Len(new_xyz), b)
                                   \cup {<<Len(new_xyz)>>}
    /\ max_neighbour_distance \in Distances
    /\ neighbor_distance_multiplier \in Multipliers
    /\ nsample \in NSamples
    /\ neighbor_type \in NeighborTypes
    /\ avg_length_of_neighbor_idxs \in 0..MaxAvg
    /\ initial_avg = avg_length_of_neighbor_idxs
    /\ new_xyz_grid_centers = <<>>
    /\ num_total_grids = 0
    /\ num_max_sum_points = 0
    /\ stack_neighbor_idxs = <<>>
    /\ start_len = <<>>
    /\ cumsum = 0
    /\ new_xyz_grid_dist2 = <<>>
    /\ new_xyz_grid_idxs = <<>>
    /\ pc = "loop"
    /\ scanned = <<>>
    /\ passes = 0
    /\ oob = 0
    /\ refined = 0
    /\ refine_in = <<>>
    /\ result = <<>>
    /\ call = 1
    /\ prev = <<>>

\* variant of StartPass: the buffer, the SliceRecords and the counter are
\* allocated before the loop, so a retry goes on with those of the last pass
StartPassHoisted ==
    /\ pc = "loop"
    /\ passes < MaxPasses
    /\ num_max_sum_points' = avg_length_of_neighbor_idxs * num_new_xyz
    /\ IF passes = 0
       THEN /\ stack_neighbor_idxs' =
                  Zeros(avg_length_of_neighbor_idxs * num_new_xyz)
            /\ start_len' = [c \in 1..num_new_xyz |-> <<0, 0>>]
            /\ cumsum' = 0
       ELSE UNCHANGED <<stack_neighbor_idxs, start_len, cumsum>>
    /\ scanned' = <<>>
    /\ oob' = 0
    /\ passes' = passes + 1
    /\ pc' = "scan"
    /\ UNCHANGED <<args, grid, outs, avg_length_of_neighbor_idxs,
                   initial_avg, call, prev>>

\* variant of StartPass: the buffer gets avg_length_of_neighbor_idxs entries,
\* not that many per center
StartPassShortBuffer ==
    /\ pc = "loop"
    /\ passes < MaxPasses
    /\ num_max_sum_points' = avg_length_of_neighbor_idxs * num_new_xyz
    /\ stack_neighbor_idxs' = Zeros(avg_length_of_neighbor_idxs)
    /\ start_len' = [c \in 1..num_new_xyz |-> <<0, 0>>]
    /\ cumsum' = 0
    /\ scanned' = <<>>
    /\ oob' = 0
    /\ passes' = passes + 1
    /\ pc' = "scan"
    /\ UNCHANGED <<args, grid, outs, avg_length_of_neighbor_idxs,
                   initial_avg, call, prev>>

\* top of the loop: allocate the buffer, the SliceRecords and the counter
\* and launch the gatherer
StartPass ==
    /\ pc = "loop"
    /\ passes < MaxPasses
    /\ num_max_sum_points' = avg_length_of_neighbor_idxs * num_new_xyz
    /\ stack_neighbor_idxs' = Zeros(avg_length_of_neighbor_idxs * num_new_xyz)
    /\ start_len' = [c \in 1..num_new_xyz |-> <<0, 0>>]
    /\ cumsum' = 0
    /\ scanned' = <<>>
    /\ oob' = 0
    /\ passes' = passes + 1
    /\ pc' = "scan"
    /\ UNCHANGED <<args, grid, outs, avg_length_of_neighbor_idxs,
                   initial_avg, call, prev>>

\* a scanning unit of the launched gatherer runs
Scan(c) ==
    /\ pc = "scan"
    /\ c \in (1..num_new_xyz) \ Range(scanned)
    /\ ScanUnit(c, QueryDistance, neighbor_type)
    /\ scanned' = Append(scanned, c)
    /\ UNCHANGED <<args, grid, outs, num_max_sum_points,
                   avg_length_of_neighbor_idxs, pc, passes, initial_avg,
                   call, prev>>

\* the division by num_new_xyz fails for a call without query centers
DivideByZero ==
    /\ pc = "scan"
    /\ Synchronized
    /\ num_new_xyz = 0
    /\ pc' = "error"
    /\ UNCHANGED <<args, grid, pass, outs, avg_length_of_neighbor_idxs,
                   passes, initial_avg, call, prev>>

\* variant of Recompute: the estimate is recomputed only when the pass is
\* retried
RecomputeOnRetryOnly ==
    /\ pc = "scan"
    /\ Synchronized
    /\ num_new_xyz > 0
    /\ IF Sufficient(cumsum, num_max_sum_points)
       THEN /\ pc' = "refine"
            /\ UNCHANGED avg_length_of_neighbor_idxs
       ELSE /\ pc' = "loop"
            /\ avg_length_of_neighbor_idxs' =
                  NewAvgLength(cumsum, num_new_xyz)
    /\ UNCHANGED <<args, grid, pass, outs, passes, initial_avg, call, prev>>

\* read the counter, recompute the estimate, leave the loop or retry
Recompute ==
    /\ pc = "scan"
    /\ Synchronized
    /\ num_new_xyz > 0
    /\ avg_length_of_neighbor_idxs' = NewAvgLength(cumsum, num_new_xyz)
    /\ pc' = IF Sufficient(cumsum, num_max_sum_points)
             THEN "refine" ELSE "loop"
    /\ UNCHANGED <<args, grid, pass, outs, passes, initial_avg, call, prev>>

\* -------------------------------------------- refiner (extension kernel)
\* stack_query_three_nn_local_idxs, modelled from the specification 4.2.

\* squared distance the refiner stores for a slot it found no neighbour for
LargeDist2 == 100

\* coordinates of the source point a stored index refers to
SafePoint(i) == IF i + 1 \in DOMAIN xyz THEN Point(i) ELSE <<0, 0, 0>>

\* entry of the buffer at 1-based position pos; a read past the end of the
\* buffer yields whatever the memory holds
ReadIdx(buf, pos, garbage) ==
    IF pos \in 1..Len(buf) THEN buf[pos] ELSE garbage

\* candidate slice of a SliceRecord
Slice(buf, rec, garbage) ==
    [j \in 1..rec[2] |-> ReadIdx(buf, rec[1] + j, garbage)]

\* best: at most three <<dist2, idx>> pairs in ascending order of dist2;
\* a new pair goes behind the pairs that are not farther than it
Insert3(best, e) ==
    LET k == Cardinality({i \in 1..Len(best) : best[i][1] <= e[1]})
        all == SubSeq(best, 1, k) \o <<e>> \o SubSeq(best, k + 1, Len(best))
    IN  SubSeq(all, 1, Min(3, Len(all)))

\* the three nearest candidates of a grid sample among slice[k..]
RECURSIVE Top3(_, _, _, _)
Top3(sample, slice, k, best) ==
    IF k > Len(slice) THEN best
    ELSE Top3(sample, slice, k + 1,
              Insert3(best, <<Dist2(SafePoint(slice[k]), sample), slice[k]>>))

\* the three output slots <<dist2, idx>> of one grid sample: the pairs found,
\* then the unset slots; keep tells whether an unset slot stays as forward
\* allocated it or gets the sentinel distance
Slots(best, old, keep) ==
    best \o SubSeq(IF keep THEN old ELSE <<<<LargeDist2, -1>>,
                                          <<LargeDist2, -1>>,
                                          <<LargeDist2, -1>>>>,
                   Len(best) + 1, 3)

\* the grid samples g, g+1, .. of center c
RECURSIVE RefineGrids(_, _, _, _, _, _)
RefineGrids(slice, samples, old, keep, g, acc) ==
    IF g > Len(samples) THEN acc
    ELSE RefineGrids(slice, samples, old, keep, g + 1,
             Append(acc, Slots(Top3(samples[g], slice, 1, <<>>),
                               old[g], keep)))

\* the centers c, c+1, ..
RECURSIVE RefineCenters(_, _, _, _, _, _, _, _)
RefineCenters(buf, recs, centers, old, keep, garbage, c, acc) ==
    IF c > Len(centers) THEN acc
    ELSE RefineCenters(buf, recs, centers, old, keep, garbage, c + 1,
             Append(acc, RefineGrids(Slice(buf, recs[c], garbage),
                                     centers[c], old[c], keep, 1, <<>>)))

\* outputs of the refiner, indexed [center][grid][slot], each <<dist2, idx>>;
\* old holds the output tensors as forward allocated them
ThreeNN(buf, recs, centers, old, keep, garbage) ==
    RefineCenters(buf, recs, centers, old, keep, garbage, 1, <<>>)

\* component k of every slot of a refiner output
Component(out, k) ==
    [c \in DOMAIN out |-> [g \in DOMAIN out[c] |->
        [s \in DOMAIN out[c][g] |-> out[c][g][s][k]]]]

\* torch.sqrt, rounded down to an integer
Sqrt(d2) == CHOOSE n \in 0..d2 : n * n <= d2 /\ d2 < (n + 1) * (n + 1)

\* grid centers of the call: every center shifted by the grid offsets
GridCenters(offs) ==
    [c \in 1..num_new_xyz |-> [g \in 1..Len(offs) |->
        <<new_xyz[c][1] + offs[g][1], new_xyz[c][2] + offs[g][2],
          new_xyz[c][3] + offs[g][3]>>]]

\* variant of Allocated: the index tensor is left at zero
AllocatedZero(centers) ==
    [c \in DOMAIN centers |-> [g \in DOMAIN centers[c] |->
        [s \in 1..3 |-> <<0, 0>>]]]

\* the output tensors as forward allocates them: distance 0, index -1
Allocated(centers) ==
    [c \in DOMAIN centers |-> [g \in DOMAIN centers[c] |->
        [s \in 1..3 |-> <<0, -1>>]]]

\* torch.sqrt over a distance tensor
SqrtAll(dist2) ==
    [c \in DOMAIN dist2 |-> [g \in DOMAIN dist2[c] |->
        [s \in DOMAIN dist2[c][g] |-> Sqrt(dist2[c][g][s])]]]

\* what a read past the end of the buffer may yield, when there is one
Garbage(buf, recs) ==
    IF \A c \in DOMAIN recs : recs[c][1] + recs[c][2] <= Len(buf)
    THEN {0} ELSE {0} \cup (0..(Len(xyz) - 1))

\* unset slots exist only for slices of fewer than three candidates
UnsetChoices(recs) ==
    IF \E c \in DOMAIN recs : recs[c][2] < 3 THEN BOOLEAN ELSE {FALSE}

\* after the loop: truncate the buffer, run the refiner, return
Refine ==
    /\ pc = "refine"
    /\ \E offs \in {Prefix(GridPattern, g) : g \in 1..MaxGrids},
          keep \in UnsetChoices(start_len),
          garbage \in Garbage(Truncate(stack_neighbor_idxs, cumsum),
                              start_len) :
          LET centers == GridCenters(offs)
              buf == Truncate(stack_neighbor_idxs, cumsum)
              out == ThreeNN(buf, start_len, centers, Allocated(centers),
                             keep, garbage)
          IN  /\ new_xyz_grid_centers' = centers
              /\ num_total_grids' = Len(offs)
              /\ stack_neighbor_idxs' = buf
              /\ new_xyz_grid_dist2' = Component(out, 1)
              /\ new_xyz_grid_idxs' = Component(out, 2)
              /\ refine_in' = <<buf, start_len>>
              /\ result' = <<SqrtAll(new_xyz_grid_dist2'),
                             new_xyz_grid_idxs',
                             avg_length_of_neighbor_idxs>>
    /\ refined' = refined + 1
    /\ pc' = "done"
    /\ UNCHANGED <<args, num_max_sum_points, start_len, cumsum, scanned, oob,
                   avg_length_of_neighbor_idxs, passes, initial_avg, call,
                   prev>>

\* the caller calls forward again on the same input, seeding it with the
\* estimate the previous call returned
Recall ==
    /\ pc = "done"
    /\ prev' = [cumsum |-> cumsum, start_len |-> start_len,
                avg |-> result[3], passes |-> passes]
    /\ avg_length_of_neighbor_idxs' = result[3]
    /\ initial_avg' = result[3]
    /\ call' = 2
    /\ passes' = 0
    /\ pc' = "loop"
    /\ new_xyz_grid_centers' = <<>>
    /\ num_total_grids' = 0
    /\ num_max_sum_points' = 0
    /\ stack_neighbor_idxs' = <<>>
    /\ start_len' = <<>>
    /\ cumsum' = 0
    /\ scanned' = <<>>
    /\ oob' = 0
    /\ new_xyz_grid_dist2' = <<>>
    /\ new_xyz_grid_idxs' = <<>>
    /\ refined' = 0
    /\ refine_in' = <<>>
    /\ result' = <<>>
    /\ UNCHANGED args

Next ==
    \/ StartPass
    \/ \E c \in 1..MaxCenters : Scan(c)
    \/ DivideByZero
    \/ Recompute
    \/ Refine
    \/ Recall

Spec == Init /\ [][Next]_vars

\* ================================================================ claims
\* SliceRecord of center c
Offset(c) == start_len[c][1]
Length(c) == start_len[c][2]
\* the pass the loop was left with
Accepted == pc \in {"refine", "done"}

\* C1: when forward returns for an input with at least one query center, the
\* returned estimate times the number of centers is at least the cumulative
\* counter of the accepted pass.
C1_EstimateCoversConsumed ==
    (pc = "done" /\ num_new_xyz > 0) => result[3] * num_new_xyz >= cumsum

\* a call returned whose counter is not a multiple of the number of centers
C1_Witness ==
    /\ pc = "done"
    /\ num_new_xyz > 1
    /\ cumsum % num_new_xyz # 0

\* C2: the retry loop runs at most two gather passes: after a pass that
\* overflowed, the estimate is ceil(consumed / centers), the next pass gets
\* that estimate times the number of centers as capacity, and is accepted.
C2_AtMostTwoPasses ==
    /\ passes <= 2
    /\ pc = "loop" => passes <= 1
    /\ (pc = "loop" /\ passes = 1) =>
          /\ cumsum > num_max_sum_points
          /\ avg_length_of_neighbor_idxs * num_new_xyz >= cumsum
          /\ (avg_length_of_neighbor_idxs - 1) * num_new_xyz < cumsum
    /\ (pc = "scan" /\ passes = 2) =>
          /\ num_max_sum_points = avg_length_of_neighbor_idxs * num_new_xyz
          /\ Len(stack_neighbor_idxs) = num_max_sum_points
    /\ (Accepted /\ passes = 2) => cumsum <= num_max_sum_points

\* a call that needed the retry returned, its second pass filling the buffer
\* exactly
C2_Witness ==
    /\ pc = "done"
    /\ passes = 2
    /\ cumsum = num_max_sum_points
    /\ num_new_xyz > 1

\* candidates the accepted pass stored for center c, as the refiner got them
SliceGiven(c) ==
    [j \in 1..refine_in[2][c][2] |-> refine_in[1][refine_in[2][c][1] + j]]

\* C3: the refiner runs once per returning call and only after a pass whose
\* counter did not exceed the capacity; it is given the SliceRecords of that
\* pass and its buffer cut to the counter, holding what the pass stored.
C3_RefinerOnceOnAcceptedPass ==
    /\ refined <= 1
    /\ (refined = 1) <=> (pc = "done")
    /\ Accepted => (cumsum <= num_max_sum_points /\ oob = 0)
    /\ pc = "done" =>
          /\ refine_in[2] = start_len
          /\ Len(refine_in[1]) = cumsum
          /\ \A c \in 1..num_new_xyz :
                SliceGiven(c) = Candidates(c, QueryDistance, neighbor_type)

\* a call returned after a retry whose buffer was longer than the counter
C3_Witness ==
    /\ pc = "done"
    /\ passes = 2
    /\ 0 < cumsum
    /\ cumsum < num_max_sum_points

\* C4: after the accepted pass the SliceRecords are pairwise disjoint ranges
\* that cover exactly the positions 0 .. consumed-1 of the candidate buffer;
\* their lengths sum to consumed.
C4_SlicesPartitionBuffer ==
    Accepted =>
       /\ \A p \in 0..(cumsum - 1) :
             Cardinality({c \in 1..num_new_xyz :
                             Offset(c) <= p /\ p < Offset(c) + Length(c)}) = 1
       /\ \A c \in 1..num_new_xyz :
             Offset(c) >= 0 /\ Offset(c) + Length(c) <= cumsum
       /\ SumSeq([c \in 1..num_new_xyz |-> Length(c)]) = cumsum
       /\ pc = "done" => Len(stack_neighbor_idxs) = cumsum

\* two centers with candidates, the second having advanced the counter first,
\* and a buffer longer than the counter
C4_Witness ==
    /\ pc = "done"
    /\ num_new_xyz = 2
    /\ scanned = <<2, 1>>
    /\ Length(1) > 0
    /\ Length(2) > 0
    /\ cumsum < num_max_sum_points

\* sum of the lengths of the centers before position i of an order of centers
RECURSIVE LengthsBefore(_, _)
LengthsBefore(order, i) ==
    IF i <= 1 THEN 0
    ELSE Length(order[i - 1]) + LengthsBefore(order, i - 1)

C7_FreshStateEachPass ==
    /\ (pc = "scan" /\ scanned = <<>>) =>
          /\ stack_neighbor_idxs =
                Zeros(avg_length_of_neighbor_idxs * num_new_xyz)
          /\ start_len = [c \in 1..num_new_xyz |-> <<0, 0>>]
          /\ cumsum = 0
    /\ pc = "refine" =>
          \A i \in DOMAIN stack_neighbor_idxs :
             i > cumsum => stack_neighbor_idxs[i] = 0

\* a retry starts, after a pass that stored candidates
C7_Witness ==
    /\ pc = "scan"
    /\ scanned = <<>>
    /\ passes = 2
    /\ avg_length_of_neighbor_idxs > initial_avg
    /\ initial_avg > 0

\* C8: the counter is compared with the capacity, the estimate recomputed, the
\* next pass or the refiner started only when every scanning unit of the
\* pass has run and the counter holds all their increments.
C8_RetryIsBarrier ==
    (passes >= 1 /\ pc # "scan") =>
       /\ Range(scanned) = 1..num_new_xyz
       /\ cumsum = SumSeq([c \in 1..num_new_xyz |-> Length(c)])

\* a retry was decided after the units of both centers had run
C8_Witness ==
    /\ pc = "loop"
    /\ passes = 1
    /\ num_new_xyz = 2
    /\ Len(scanned) = 2

\* returned distance and index of slot s of grid sample g of center c
OutDist(c, g, s) == result[1][c][g][s]
OutIdx(c, g, s) == result[2][c][g][s]
\* indices in the candidate slice of center c handed to the refiner
SliceSet(c) ==
    {refine_in[1][p] : p \in ((refine_in[2][c][1] + 1) ..
                              (refine_in[2][c][1] + refine_in[2][c][2]))
                             \cap DOMAIN refine_in[1]}
\* the grid samples of the returned result
Samples == {<<c, g>> : c \in 1..num_new_xyz, g \in 1..num_total_grids}

\* what C9 says of the indices: those that are set are pairwise distinct and
\* come from the slice of the center
IndicesFromSlice(c, g) ==
    /\ \A s1, s2 \in 1..3 :
          (s1 # s2 /\ OutIdx(c, g, s1) # -1 /\ OutIdx(c, g, s2) # -1)
             => OutIdx(c, g, s1) # OutIdx(c, g, s2)
    /\ LET slice == SliceSet(c)
       IN  \A s \in 1..3 :
              OutIdx(c, g, s) # -1 => OutIdx(c, g, s) \in slice

SetSlots(c, g) == Cardinality({s \in 1..3 : OutIdx(c, g, s) # -1})

\* C10: a center whose slice has k < 3 candidates gets k set slots and 3 - k
\* slots with index -1 for every grid sample, none set for an empty slice, and
\* a call with query centers does not fail.
C10_DegenerateSlots ==
    /\ num_new_xyz > 0 => pc # "error"
    /\ pc = "done" =>
          \A x \in Samples :
             Length(x[1]) < 3 =>
                /\ SetSlots(x[1], x[2]) = Length(x[1])
                /\ \A s \in 1..3 :
                      s > Length(x[1]) => OutIdx(x[1], x[2], s) = -1

\* a call returned with an empty slice and a slice of one or two candidates
C10_Witness ==
    /\ pc = "done"
    /\ \E c \in 1..num_new_xyz : Length(c) = 0
    /\ \E c \in 1..num_new_xyz : Length(c) \in {1, 2}

\* batch element (1-based) the query center c belongs to by position: one
\* more than the number of batch elements, short of the last, that end
\* before c
QueryBatch(c) ==
    1 + Cardinality({b \in 1..(Len(new_xyz_batch_cnt) - 1) :
                        c > SumSeq(SubSeq(new_xyz_batch_cnt, 1, b))})
\* flat indices of the source points of batch element b
SourceRange(b) ==
    LET before == SumSeq(SubSeq(xyz_batch_cnt, 1, b - 1))
    IN  before..(before + xyz_batch_cnt[b] - 1)
\* effective radius
EffectiveRadius == max_neighbour_distance * neighbor_distance_multiplier
\* the source point with flat index i satisfies the predicate of center c
Within(i, c) ==
    IF neighbor_type = 1
    THEN Dist2(Point(i), new_xyz[c]) <= EffectiveRadius * EffectiveRadius
    ELSE /\ Abs(Point(i)[1] - new_xyz[c][1]) <= EffectiveRadius
         /\ Abs(Point(i)[2] - new_xyz[c][2]) <= EffectiveRadius
         /\ Abs(Point(i)[3] - new_xyz[c][3]) <= EffectiveRadius
\* source points of the batch element of center c that satisfy the predicate
QualifyingPoints(c) ==
    LET own == SourceRange(QueryBatch(c))
    IN  {i \in own : Within(i, c)}

\* C11: in every gather pass, running or finished, the SliceRecord length of
\* a center whose unit has run is at most nsample when nsample is positive
\* and the number of qualifying source points of its batch element otherwise;
\* the counter at the end of the pass is the sum of these accepted counts.
C11_PerCenterCap ==
    /\ pc \in {"scan", "loop", "refine"} =>
          \A c \in Range(scanned) :
             LET qualifying == Cardinality(QualifyingPoints(c))
             IN  /\ nsample > 0 => Length(c) = Min(nsample, qualifying)
                 /\ nsample <= 0 => Length(c) = qualifying
    /\ (passes >= 1 /\ pc # "scan") =>
          cumsum = SumSeq([c \in 1..num_new_xyz |-> Length(c)])

\* a pass ended in which a center with more qualifying points than the
\* positive cap got the cap, the counter staying below the qualifying points
C11_Witness ==
    /\ pc = "refine"
    /\ nsample > 0
    /\ \E c \in 1..num_new_xyz :
          /\ Cardinality(QualifyingPoints(c)) > nsample
          /\ Length(c) = nsample
    /\ cumsum < SumSeq([c \in 1..num_new_xyz |->
                           Cardinality(QualifyingPoints(c))])

\* C12: every index in the candidate slice of a center of query batch element
\* i is a flat index of source batch element i, and so is every set output
\* index of its grid samples.
C12_BatchIsolation ==
    /\ pc = "refine" =>
          \A c \in 1..num_new_xyz :
             LET own == SourceRange(QueryBatch(c))
             IN  \A j \in 1..Length(c) :
                    stack_neighbor_idxs[Offset(c) + j] \in own
    /\ pc = "done" =>
          \A c \in 1..num_new_xyz :
             LET own == SourceRange(QueryBatch(c))
             IN  \A g \in 1..num_total_grids : \A s \in 1..3 :
                    OutIdx(c, g, s) # -1 => OutIdx(c, g, s) \in own

\* a call returned in which a center of the second batch element has set
\* slots, while a source point of the first batch element satisfies its
\* predicate too
C12_Witness ==
    /\ pc = "done"
    /\ \E x \in Samples :
          /\ QueryBatch(x[1]) = 2
          /\ OutIdx(x[1], x[2], 1) # -1
          /\ \E i \in SourceRange(1) : Within(i, x[1])

\* what the input alone determines: the number of candidates a center
\* accepts and the candidates themselves, the first qualifying points of its
\* batch element
AcceptedCount(c) ==
    LET qualifying == Cardinality(QualifyingPoints(c))
    IN  IF nsample > 0 THEN Min(nsample, qualifying) ELSE qualifying
AcceptedSet(c) ==
    LET own == QualifyingPoints(c)
        cap == IF nsample > 0 THEN nsample ELSE Cardinality(own)
    IN  {i \in own : Cardinality({j \in own : j < i}) < cap}

\* indices a pass stored in the buffer for center c, of a center whose unit
\* has run
StoredFor(c) ==
    {stack_neighbor_idxs[p] :
        p \in ((Offset(c) + 1)..(Offset(c) + Length(c)))
              \cap DOMAIN stack_neighbor_idxs}

\* C13: the outcome of a call is determined by the input without the initial
\* estimate: the length and the candidate set of every center, the counter
\* and the estimate of the accepted pass are the same for every
\* avg_length_of_neighbor_idxs the call starts with, and the call returns
\* that pass and that estimate; a call that starts with a larger estimate
\* than the call before it on the same input, which needed the retry, ends
\* with the counter, lengths and estimate of that call.
C13_OutcomeIndependentOfEstimate ==
    /\ pc = "refine" =>
          /\ \A c \in 1..num_new_xyz :
                LET accepted == AcceptedSet(c)
                IN  /\ Length(c) = Cardinality(accepted)
                    /\ StoredFor(c) = accepted
          /\ cumsum = SumSeq([c \in 1..num_new_xyz |-> Length(c)])
          /\ avg_length_of_neighbor_idxs * num_new_xyz >= cumsum
          /\ (avg_length_of_neighbor_idxs - 1) * num_new_xyz < cumsum
    /\ pc = "done" =>
          /\ refine_in = <<stack_neighbor_idxs, start_len>>
          /\ Len(stack_neighbor_idxs) = cumsum
          /\ result[3] = avg_length_of_neighbor_idxs
    /\ (pc = "done" /\ call >= 2 /\ prev.passes = 2) =>
          /\ cumsum = prev.cumsum
          /\ \A c \in 1..num_new_xyz : Length(c) = prev.start_len[c][2]
          /\ result[3] = prev.avg

\* two calls on the same input returned, the first started with too small an
\* estimate and needed the retry, the second started with a larger one and
\* did not
C13_Witness ==
    /\ pc = "done"
    /\ call = 2
    /\ prev.passes = 2
    /\ initial_avg > 1
    /\ passes = 1
    /\ num_new_xyz = 2

\* the indices a pass stored for center c
BufferSet(c) == {stack_neighbor_idxs[Offset(c) + j] : j \in 1..Length(c)}
\* the elements of a set of numbers in ascending order
Ascending(S) ==
    [k \in 1..Cardinality(S) |->
        CHOOSE i \in S : Cardinality({j \in S : j < i}) = k - 1]
\* the slices the refiner was given, laid out as by a pass whose units
\* advance the counter in center order, each slice in ascending order: buffer
\* and SliceRecords of the centers c, c+1, ..
RECURSIVE InOrderBuffer(_)
InOrderBuffer(c) ==
    IF c > num_new_xyz THEN <<>>
    ELSE Ascending(SliceSet(c)) \o InOrderBuffer(c + 1)
RECURSIVE InOrderRecords(_, _)
InOrderRecords(c, off) ==
    IF c > num_new_xyz THEN <<>>
    ELSE <<<<off, Length(c)>>>> \o InOrderRecords(c + 1, off + Length(c))
\* refiner output for that layout, unset slots with the sentinel distance
InOrderOutput ==
    ThreeNN(InOrderBuffer(1), InOrderRecords(1, 0), new_xyz_grid_centers,
            Allocated(new_xyz_grid_centers), FALSE, 0)

\* C14: whatever the order in which the scanning units advanced the counter,
\* a finished pass has the same length for every center and the same counter,
\* the accepted pass the same candidate set for every center, and the call
\* returns the indices, and for the set slots the distances, the refiner
\* gives for these candidate sets laid out in center order.
C14_InterleavingIndependent ==
    /\ (passes >= 1 /\ pc \in {"loop", "refine"}) =>
          /\ \A c \in 1..num_new_xyz : Length(c) = AcceptedCount(c)
          /\ cumsum = SumSeq([c \in 1..num_new_xyz |-> Length(c)])
    /\ pc = "refine" =>
          \A c \in 1..num_new_xyz : BufferSet(c) = AcceptedSet(c)
    /\ pc = "done" =>
          LET out == InOrderOutput
          IN  \A x \in Samples : \A s \in 1..3 :
                 /\ OutIdx(x[1], x[2], s) = out[x[1]][x[2]][s][2]
                 /\ OutIdx(x[1], x[2], s) # -1 =>
                       OutDist(x[1], x[2], s) = Sqrt(out[x[1]][x[2]][s][1])

\* a call returned whose units advanced the counter in the reverse of the
\* center order, after a call on the same input whose units ran in center
\* order; both centers have candidates and a grid sample has three set slots
C14_Witness ==
    /\ pc = "done"
    /\ call = 2
    /\ scanned = <<2, 1>>
    /\ prev.start_len[1][1] = 0
    /\ Offset(1) > 0
    /\ Length(2) > 0
    /\ \E x \in Samples : OutIdx(x[1], x[2], 3) # -1

\* C15 as stated: a call with a non-positive max_neighbour_distance or a
\* non-positive initial avg_length_of_neighbor_idxs aborts before a gather
\* pass starts and returns nothing.
C15_InvalidParameterAborts ==
    (max_neighbour_distance <= 0 \/ initial_avg <= 0) =>
       /\ passes = 0
       /\ pc \in {"loop", "error"}
       /\ result = <<>>

\* the two count tensors have the same length and sum to the numbers of
\* source points and centers
ShapesMatch ==
    /\ Len(xyz_batch_cnt) = Len(new_xyz_batch_cnt)
    /\ SumSeq(xyz_batch_cnt) = Len(xyz)
    /\ SumSeq(new_xyz_batch_cnt) = Len(new_xyz)

\* C16 as stated: a call whose count tensors differ in length or do not fit
\* the point arrays fails before a scan begins: no gather pass starts, no
\* unit runs, nothing is returned.
C16_ShapeMismatchFailsFast ==
    ~ShapesMatch =>
       /\ passes = 0
       /\ scanned = <<>>
       /\ pc \in {"loop", "error"}
       /\ result = <<>>

\* C17: with r = max_neighbour_distance * neighbor_distance_multiplier, every
\* index a pass, running or finished, stored for a center is a source point whose squared distance to the
\* center is at most r * r when neighbor_type is 1, and whose offset from the
\* center is at most r in absolute value on each axis otherwise.
C17_PredicateSound ==
    pc \in {"scan", "loop", "refine"} =>
       \A c \in Range(scanned) : \A i \in StoredFor(c) :
          LET r == max_neighbour_distance * neighbor_distance_multiplier
              p == xyz[i + 1]
              q == new_xyz[c]
          IN  /\ i \in 0..(Len(xyz) - 1)
              /\ neighbor_type = 1 =>
                    (p[1] - q[1]) * (p[1] - q[1])
                       + (p[2] - q[2]) * (p[2] - q[2])
                       + (p[3] - q[3]) * (p[3] - q[3]) <= r * r
              /\ neighbor_type # 1 =>
                    /\ Abs(p[1] - q[1]) <= r
                    /\ Abs(p[2] - q[2]) <= r
                    /\ Abs(p[3] - q[3]) <= r

\* an accepted pass with multiplier 2 and the ball predicate in which a center
\* without a cap has a candidate farther away than max_neighbour_distance,
\* and a source point of its batch element was not accepted
C17_Witness ==
    /\ Accepted
    /\ neighbor_type = 1
    /\ neighbor_distance_multiplier = 2
    /\ nsample <= 0
    /\ \E c \in 1..num_new_xyz :
          /\ \E i \in StoredFor(c) :
                Dist2(Point(i), new_xyz[c])
                   > max_neighbour_distance * max_neighbour_distance
          /\ SourceRange(QueryBatch(c)) \ StoredFor(c) # {}

\* C18: in the accepted pass no store fell past the buffer: the range of every
\* center ends at or before the counter, and the counter at or before the
\* capacity and the length of the buffer; in every pass the range of a
\* center whose unit has run ends at or before the counter, so a store past
\* the buffer happens only in a pass whose counter exceeds the capacity, and
\* such a pass is never the accepted one.
C18_AcceptedWritesInRange ==
    /\ \A c \in Range(scanned) :
          Offset(c) >= 0 /\ Offset(c) + Length(c) <= cumsum
    /\ Accepted =>
          /\ oob = 0
          /\ cumsum <= num_max_sum_points
          /\ \A c \in 1..num_new_xyz :
                /\ Offset(c) + Length(c) <= num_max_sum_points
                /\ Offset(c) + Length(c) <= Len(stack_neighbor_idxs)
    /\ oob > 0 =>
          /\ cumsum > num_max_sum_points
          /\ pc \in {"scan", "loop"}
    /\ (pc = "scan" /\ scanned = <<>>) => oob = 0

\* the pass after a pass that stored past the buffer was accepted; its units
\* advanced the counter in reverse center order and filled the buffer to the
\* last entry
C18_Witness ==
    /\ pc = "refine"
    /\ passes = 2
    /\ initial_avg > 0
    /\ scanned = <<2, 1>>
    /\ Length(1) > 0
    /\ Length(2) > 0
    /\ Offset(1) + Length(1) = num_max_sum_points

\* C19: after every finished pass, the accepted one included, the estimate is
\* the counter of that pass divided by the number of centers, rounded up; the
\* call returns the estimate of the accepted pass, which is 0 when no
\* candidate was accepted and can be below the estimate the call started with.
C19_EstimateRecomputedEveryPass ==
    /\ (passes >= 1 /\ pc \in {"loop", "refine", "done"}) =>
          /\ avg_length_of_neighbor_idxs * num_new_xyz >= cumsum
          /\ (avg_length_of_neighbor_idxs - 1) * num_new_xyz < cumsum
    /\ pc = "done" =>
          /\ result[3] = avg_length_of_neighbor_idxs
          /\ cumsum = 0 => result[3] = 0

\* a call returned in its first pass with an estimate that is rounded up from
\* the counter and is below the estimate the call started with
C19_Witness ==
    /\ pc = "done"
    /\ passes = 1
    /\ cumsum > 0
    /\ cumsum % num_new_xyz # 0
    /\ result[3] < initial_avg

====
